---- MODULE Spec2Model ----
(***************************************************************************)
(* hxx: hex dump (hex_dump) and reverse hex dump (reverse_hex_dump).       *)
(*                                                                         *)
(* Raw bytes are naturals in 0..255.  Text is a sequence of one-character  *)
(* strings, ASCII only.  Reads of the input stream do not fail; writes to  *)
(* the output stream may (SpecIO).  The model follows src/src/hex.rs,      *)
(* src/src/config.rs and src/src/main.rs.                                  *)
(***************************************************************************)
EXTENDS Integers, Sequences, FiniteSets, TLC

VARIABLES
    args,        \* command-line arguments still to be parsed by Config::build
    cols,        \* Config.cols
    byte_groups, \* Config.byte_groups
    reverse,     \* Config.reverse
    input,       \* what is left to read of the input stream
    wbuf,        \* the BufWriter's internal buffer
    output,      \* what has reached the underlying output stream
    offset,      \* hex_dump's running offset
    pc,          \* "build", "dump", "reverse", "line", "revline", "done"
    result,      \* "running", "ok", "exit", an error message, or "panic: ..."
    flaky,       \* TRUE iff the underlying output stream may start to fail
    broken,      \* TRUE once the underlying output stream fails every write
    chunks,      \* history: chunk, offset and line of every hex_dump iteration
    wfailed,     \* history: TRUE once a write to the underlying stream has failed
    source,      \* history: the bytes given to hex_dump as input
    decoded      \* history: line, outcome and bytes of every reverse_hex_dump iteration

vars == <<args, cols, byte_groups, reverse, input, wbuf, output, offset, pc,
          result, flaky, broken, chunks, wfailed, source, decoded>>

----------------------------------------------------------------------------
(* Bounds of the model *)

MaxCols == 4
MaxGroups == 3
MaxLen == 3
WCap == 20
MaxLine == 5
MaxHex == 3
MaxChunk == 3
MaxArgs == 3
MaxFile == 2
MaxRevLines == 3

ByteSet == {32, 58, 65, 66, 255}

----------------------------------------------------------------------------
(* Characters *)

Min(a, b) == IF a < b THEN a ELSE b

\* The printable ASCII characters SP (0x20) to ~ (0x7e), in order.  The grave
\* accent (0x60) cannot be written in a TLA+ string and is named "U+0060".
Printable ==
    << " ", "!", "\"", "#", "$", "%", "&", "'", "(", ")", "*", "+", ",", "-", ".", "/",
       "0", "1", "2", "3", "4", "5", "6", "7", "8", "9", ":", ";", "<", "=", ">", "?",
       "@", "A", "B", "C", "D", "E", "F", "G", "H", "I", "J", "K", "L", "M", "N", "O",
       "P", "Q", "R", "S", "T", "U", "V", "W", "X", "Y", "Z", "[", "\\", "]", "^", "_",
       "U+0060", "a", "b", "c", "d", "e", "f", "g", "h", "i", "j", "k", "l", "m", "n", "o",
       "p", "q", "r", "s", "t", "u", "v", "w", "x", "y", "z", "{", "|", "}", "~" >>

\* The digits the {:x} formatter produces.
LowerHex ==
    << "0", "1", "2", "3", "4", "5", "6", "7", "8", "9", "a", "b", "c", "d", "e", "f" >>

UpperHex == << "A", "B", "C", "D", "E", "F" >>

Spaces(n) == [i \in 1..n |-> " "]

RECURSIVE HexDigits(_)
\* The hexadecimal digits of n, most significant first, no padding ("{:x}").
HexDigits(n) ==
    IF n < 16 THEN << LowerHex[n + 1] >>
    ELSE Append(HexDigits(n \div 16), LowerHex[(n % 16) + 1])

\* "{:0width$x}": zero-padded on the left to at least `width` characters.
HexPad(n, width) ==
    LET d == HexDigits(n)
    IN  IF Len(d) >= width THEN d ELSE [i \in 1..(width - Len(d)) |-> "0"] \o d

\* Mutant: the space (0x20) is taken for a non-printable character.
PanelCharAboveSpace(b) == IF b > 32 /\ b <= 126 THEN Printable[b - 31] ELSE "."

\* The ASCII panel character of byte b (src/src/hex.rs:167-171).
PanelChar(b) == IF b >= 32 /\ b <= 126 THEN Printable[b - 31] ELSE "."

----------------------------------------------------------------------------
(* format_hex_dump_line *)

RECURSIVE HexBytes(_, _, _)
\* The loop of lines 145-152 from index i (0-based) on; byte_groups >= 1 here.
HexBytes(buffer, i, g) ==
    IF i >= Len(buffer) THEN << >>
    ELSE (IF i # 0 /\ i % g = 0 THEN << " " >> ELSE << >>)
         \o HexPad(buffer[i + 1], 2)
         \o HexBytes(buffer, i + 1, g)

\* Mutant: the spaces between the missing byte groups are forgotten.
PaddingNoGroups(bytes_read, c, g) == (c - bytes_read) * 2

\* Padding of a short chunk (lines 154-161).
Padding(bytes_read, c, g) == (c - bytes_read) * 2 + ((c - bytes_read) \div g)

\* [res |-> "ok" | a panic, line |-> the text appended to the (empty) line].
\* i % 0 and x / 0 panic in Rust: the first is evaluated when the chunk has a
\* second byte, the second when the chunk is shorter than cols.
format_hex_dump_line(buffer, off, c, g) ==
    LET bytes_read == Len(buffer)
    IN  IF g = 0 /\ (bytes_read >= 2 \/ bytes_read < c)
        THEN [res |-> "panic: division by zero", line |-> << >>]
        ELSE [res  |-> "ok",
              line |-> HexPad(off, 8) \o << ":", " " >>
                       \o HexBytes(buffer, 0, g)
                       \o (IF bytes_read < c THEN Spaces(Padding(bytes_read, c, g))
                           ELSE << >>)
                       \o << " ", " " >>
                       \o [i \in 1..bytes_read |-> PanelChar(buffer[i])]]

----------------------------------------------------------------------------
(* format_reverse_hex_dump_line *)

None == -1

RECURSIVE FindFrom(_, _, _)
\* str::find of one character: the 0-based index of its first occurrence at or
\* after 0-based index i, or None.
FindFrom(buffer, c, i) ==
    IF i >= Len(buffer) THEN None
    ELSE IF buffer[i + 1] = c THEN i
    ELSE FindFrom(buffer, c, i + 1)

RECURSIVE FindTwoSpaces(_, _)
\* str::find("  "): the 0-based index, relative to the start of s, of the first
\* two consecutive spaces at or after index i, or None.
FindTwoSpaces(s, i) ==
    IF i + 1 >= Len(s) THEN None
    ELSE IF s[i + 1] = " " /\ s[i + 2] = " " THEN i
    ELSE FindTwoSpaces(s, i + 1)

\* &buffer[a..b] with 0-based a <= b <= Len(buffer).
Slice(buffer, a, b) == [i \in 1..(b - a) |-> buffer[a + i]]

\* char::is_whitespace, over the ASCII characters.
IsWhitespace(c) == c \in {" ", "\t", "\n", "\r", "\f"}

\* char::to_digit(16): the value of a hexadecimal digit, or None.
ToDigit16(c) ==
    IF \E k \in 1..16 : LowerHex[k] = c
    THEN (CHOOSE k \in 1..16 : LowerHex[k] = c) - 1
    ELSE IF \E k \in 1..6 : UpperHex[k] = c
    THEN (CHOOSE k \in 1..6 : UpperHex[k] = c) + 9
    ELSE None

\* hex.chars().filter(|c| !c.is_whitespace())
Dense(hex) == SelectSeq(hex, LAMBDA c : ~IsWhitespace(c))

RECURSIVE OctetsHighFirst(_, _, _)
\* Mutant: the high character is converted before the low one is fetched.
OctetsHighFirst(chars, i, line) ==
    IF i >= Len(chars) THEN [res |-> "ok", bytes |-> line]
    ELSE IF ToDigit16(chars[i + 1]) = None
    THEN [res |-> "malformed line: invalid hex char", bytes |-> line]
    ELSE IF i + 1 >= Len(chars)
    THEN [res |-> "malformed hex: odd number of hex digits", bytes |-> line]
    ELSE IF ToDigit16(chars[i + 2]) = None
    THEN [res |-> "malformed line: invalid hex char", bytes |-> line]
    ELSE OctetsHighFirst(chars, i + 2,
                         Append(line, ((ToDigit16(chars[i + 1]) * 16) % 256)
                                      + ToDigit16(chars[i + 2])))

RECURSIVE Octets(_, _, _)
\* The loop of lines 263-295 over the dense characters from 0-based index i,
\* `line` being the bytes pushed so far.
Octets(chars, i, line) ==
    IF i >= Len(chars) THEN [res |-> "ok", bytes |-> line]
    ELSE IF i + 1 >= Len(chars)
    THEN [res |-> "malformed hex: odd number of hex digits", bytes |-> line]
    ELSE LET high_nibble == ToDigit16(chars[i + 1])
             low_nibble  == ToDigit16(chars[i + 2])
         IN  IF high_nibble = None \/ low_nibble = None
             THEN [res |-> "malformed line: invalid hex char", bytes |-> line]
             ELSE Octets(chars, i + 2,
                         Append(line, ((high_nibble * 16) % 256) + low_nibble))

\* [res |-> "ok" | an error message | a panic, bytes |-> the bytes pushed to line].
\* &buffer[start..] panics when start is past the end of the buffer.
format_reverse_hex_dump_line(buffer) ==
    LET colon_idx == FindFrom(buffer, ":", 0)
        start     == colon_idx + 2
    IN  IF colon_idx = None
        THEN [res |-> "malformed line: missing ':'", bytes |-> << >>]
        ELSE IF start > Len(buffer)
        THEN [res |-> "panic: slice out of bounds", bytes |-> << >>]
        ELSE LET found == FindTwoSpaces(Slice(buffer, start, Len(buffer)), 0)
                 end   == found + start
             IN  IF found = None
                 THEN [res   |-> "malformed line: missing double space separator",
                       bytes |-> << >>]
                 ELSE IF end > Len(buffer)
                 THEN [res |-> "malformed line: line too short", bytes |-> << >>]
                 ELSE Octets(Dense(Slice(buffer, start, end)), 0, << >>)

----------------------------------------------------------------------------
(* BufWriter over the output stream.  A writer is                           *)
(* [buf, out, err, failed]: the internal buffer, what has reached the       *)
(* underlying stream, whether the last operation returned Err, and whether  *)
(* any write to the underlying stream has failed.                           *)

Writer == [buf |-> wbuf, out |-> output, err |-> FALSE, failed |-> wfailed]

\* BufWriter::flush_buf: nothing is written when the buffer is empty.
FlushBuf(w) ==
    IF w.buf = << >> THEN [w EXCEPT !.err = FALSE]
    ELSE IF broken THEN [w EXCEPT !.err = TRUE, !.failed = TRUE]
    ELSE [w EXCEPT !.out = w.out \o w.buf, !.buf = << >>, !.err = FALSE]

\* BufWriter::write_all of `data`; skipped when an earlier call failed ("?").
WriteAll(w, data) ==
    IF w.err THEN w
    ELSE IF Len(data) < WCap - Len(w.buf)
    THEN [w EXCEPT !.buf = w.buf \o data]
    ELSE LET w1 == IF Len(data) > WCap - Len(w.buf) THEN FlushBuf(w) ELSE w
         IN  IF w1.err THEN w1
             ELSE IF Len(data) >= WCap
             THEN (IF broken THEN [w1 EXCEPT !.err = TRUE, !.failed = TRUE]
                   ELSE [w1 EXCEPT !.out = w1.out \o data])
             ELSE [w1 EXCEPT !.buf = w1.buf \o data]

\* Mutant: write! in place of writeln!.
WriteNoNewline(w, line) == WriteAll(w, line)

\* writeln!(writer, "{line}"): the line, then the newline.
Writeln(w, line) == WriteAll(WriteAll(w, line), << "\n" >>)

\* Drop of the BufWriter at the end of the function, on every exit path:
\* the buffer is flushed and the result of the flush is discarded.
DropWriter(w) == [FlushBuf(w) EXCEPT !.err = FALSE]

SetWriter(w) ==
    /\ wbuf' = w.buf
    /\ output' = w.out
    /\ wfailed' = w.failed

\* Function exit with result r: the writer goes out of scope.
Return(w, r) ==
    /\ SetWriter(DropWriter(w))
    /\ result' = r
    /\ pc' = "done"

----------------------------------------------------------------------------
(* hex_dump *)

\* What reader.read(&mut buf) may return with buf of length cols: 0 at end of
\* input (or for an empty buf), else any count from 1 to what fits and is left.
ReadSizes == IF cols = 0 \/ input = << >> THEN {0} ELSE 1..Min(cols, Len(input))

\* Mutant: the offset advances by the line width, not by what was read.
NextOffsetByCols(off, bytes_read) == off + cols

\* offset += bytes_read (line 124).
NextOffset(off, bytes_read) == off + bytes_read

\* One iteration of the loop that reads a chunk (lines 111-128).
DumpLine ==
    /\ pc = "dump"
    /\ \E bytes_read \in ReadSizes :
         /\ bytes_read # 0
         /\ LET buf == SubSeq(input, 1, bytes_read)
                f   == format_hex_dump_line(buf, offset, cols, byte_groups)
                w   == Writeln(Writer, f.line)
            IN  /\ input' = SubSeq(input, bytes_read + 1, Len(input))
                /\ IF f.res # "ok"
                   THEN /\ Return(Writer, f.res)
                        /\ UNCHANGED <<offset, chunks>>
                   ELSE IF w.err
                   THEN /\ Return(w, "failed to write to output")
                        /\ UNCHANGED <<offset, chunks>>
                   ELSE /\ SetWriter(w)
                        /\ offset' = NextOffset(offset, bytes_read)
                        /\ chunks' = Append(chunks, [buf |-> buf, off |-> offset,
                                                     line |-> f.line])
                        /\ UNCHANGED <<pc, result>>
    /\ UNCHANGED <<args, cols, byte_groups, reverse, flaky, broken, source, decoded>>

\* The iteration that reads nothing: break, Ok(()) (lines 116-119, 130).
DumpEof ==
    /\ pc = "dump"
    /\ 0 \in ReadSizes
    /\ Return(Writer, "ok")
    /\ UNCHANGED <<args, cols, byte_groups, reverse, input, offset, flaky, broken,
                   chunks, source, decoded>>

----------------------------------------------------------------------------
(* reverse_hex_dump *)

\* read_line: the input up to and including the first newline, or all of it.
ReadLine(inp) ==
    LET nl == FindFrom(inp, "\n", 0)
    IN  IF nl = None THEN inp ELSE SubSeq(inp, 1, nl + 1)

\* One iteration of the loop that reads a line (lines 217-238).
ReverseLine ==
    /\ pc = "reverse"
    /\ input # << >>
    /\ LET buf == ReadLine(input)
           f   == format_reverse_hex_dump_line(buf)
           w   == WriteAll(Writer, f.bytes)
       IN  /\ input' = SubSeq(input, Len(buf) + 1, Len(input))
           /\ decoded' = Append(decoded, [buf |-> buf, res |-> f.res, bytes |-> f.bytes])
           /\ IF f.res # "ok"
              THEN Return(Writer, f.res)
              ELSE IF w.err
              THEN Return(w, "failed to write to output")
              ELSE /\ SetWriter(w)
                   /\ UNCHANGED <<pc, result>>
    /\ UNCHANGED <<args, cols, byte_groups, reverse, offset, flaky, broken, chunks,
                   source>>

\* read_line returns 0: break, Ok(()) (lines 222-225, 240).
ReverseEof ==
    /\ pc = "reverse"
    /\ input = << >>
    /\ Return(Writer, "ok")
    /\ UNCHANGED <<args, cols, byte_groups, reverse, input, offset, flaky, broken,
                   chunks, source, decoded>>

----------------------------------------------------------------------------
(* The environment *)

\* The output of a successful hex_dump is given to reverse_hex_dump as input.
Pipe ==
    /\ pc = "done"
    /\ ~reverse
    /\ result = "ok"
    /\ reverse' = TRUE
    /\ input' = output
    /\ output' = << >>
    /\ wbuf' = << >>
    /\ pc' = "reverse"
    /\ result' = "running"
    /\ broken' = FALSE
    /\ wfailed' = FALSE
    /\ UNCHANGED <<args, cols, byte_groups, offset, flaky, chunks, source, decoded>>

\* The underlying output stream starts to fail (disk full, closed pipe).
OutputBreaks ==
    /\ flaky
    /\ ~broken
    /\ pc \in {"dump", "reverse"}
    /\ broken' = TRUE
    /\ UNCHANGED <<args, cols, byte_groups, reverse, input, wbuf, output, offset,
                   pc, result, flaky, chunks, wfailed, source, decoded>>

\* Byte sequences of length at most n over the set B.
SeqsUpTo(B, n) == UNION {[1..k -> B] : k \in 0..n}

----------------------------------------------------------------------------
(* Spec: hex_dump of a byte sequence over a reliable output, then            *)
(* reverse_hex_dump of what it wrote.                                        *)

Init ==
    /\ args = << >>
    /\ cols \in 0..MaxCols
    /\ byte_groups \in 1..MaxGroups
    /\ reverse = FALSE
    /\ input \in SeqsUpTo(ByteSet, MaxLen)
    /\ source = input
    /\ wbuf = << >>
    /\ output = << >>
    /\ offset = 0
    /\ pc = "dump"
    /\ result = "running"
    /\ flaky = FALSE
    /\ broken = FALSE
    /\ chunks = << >>
    /\ wfailed = FALSE
    /\ decoded = << >>

Next == DumpLine \/ DumpEof \/ Pipe \/ ReverseLine \/ ReverseEof

Spec == Init /\ [][Next]_vars

----------------------------------------------------------------------------
(* SpecIO: the same two runs over an output stream that may start to fail.   *)

InitIO ==
    /\ args = << >>
    /\ cols \in 1..MaxCols
    /\ byte_groups \in 1..MaxGroups
    /\ reverse = FALSE
    /\ input \in SeqsUpTo(ByteSet, MaxLen)
    /\ source = input
    /\ wbuf = << >>
    /\ output = << >>
    /\ offset = 0
    /\ pc = "dump"
    /\ result = "running"
    /\ flaky = TRUE
    /\ broken = FALSE
    /\ chunks = << >>
    /\ wfailed = FALSE
    /\ decoded = << >>

NextIO == DumpLine \/ DumpEof \/ Pipe \/ ReverseLine \/ ReverseEof \/ OutputBreaks

SpecIO == InitIO /\ [][NextIO]_vars

----------------------------------------------------------------------------
(* Config::build and main *)

DefaultCols == 16
DefaultGroups == 2
MaxValue == 256

\* str::parse::<usize> of the arguments the model draws from: the value, or None.
ParseUsize(a) ==
    CASE a = "0" -> 0
      [] a = "2" -> 2
      [] a = "300" -> 300
      [] OTHER -> None

\* Config::parse_value of the next argument, <<a>>, or of no argument, << >>:
\* [err |-> "" | a message, value |-> the value].
parse_value(value) ==
    IF value = << >> THEN [err |-> "missing value for flag", value |-> 0]
    ELSE LET v == ParseUsize(value[1])
         IN  IF v # None /\ v >= 0 /\ v <= MaxValue
             THEN [err |-> "", value |-> v]
             ELSE [err |-> "invalid value for flag", value |-> 0]

\* The names of FLAG_REGISTRY.
FlagNames == {"-c", "-g", "-r", "-h", "-v"}

\* str::starts_with("-") of the arguments the model draws from.
StartsWithDash(a) == a \in {"-c", "-g", "-r", "-h", "-z"}

\* main on a failed build: the message, the usage, exit(1).
Exit(r) ==
    /\ result' = r
    /\ pc' = "done"

\* One iteration of the flag loop of Config::build (lines 70-97).
BuildFlag ==
    /\ pc = "build"
    /\ args # << >>
    /\ StartsWithDash(Head(args))
    /\ LET flag_name == Head(args)
           rest      == Tail(args)
           v         == parse_value(IF rest = << >> THEN << >> ELSE << Head(rest) >>)
       IN  CASE flag_name \notin FlagNames ->
                  /\ Exit("unknown flag provided")
                  /\ args' = rest
                  /\ UNCHANGED <<cols, byte_groups, reverse>>
             [] flag_name = "-c" ->
                  /\ args' = IF rest = << >> THEN rest ELSE Tail(rest)
                  /\ IF v.err # ""
                     THEN Exit(v.err) /\ UNCHANGED cols
                     ELSE cols' = v.value /\ UNCHANGED <<pc, result>>
                  /\ UNCHANGED <<byte_groups, reverse>>
             [] flag_name = "-g" ->
                  /\ args' = IF rest = << >> THEN rest ELSE Tail(rest)
                  /\ IF v.err # ""
                     THEN Exit(v.err) /\ UNCHANGED byte_groups
                     ELSE byte_groups' = v.value /\ UNCHANGED <<pc, result>>
                  /\ UNCHANGED <<cols, reverse>>
             [] flag_name = "-r" ->
                  /\ args' = rest
                  /\ reverse' = TRUE
                  /\ UNCHANGED <<cols, byte_groups, pc, result>>
             [] OTHER ->
                  \* "-h" and "-v": print_usage and print_version exit the process
                  /\ Exit("exit")
                  /\ args' = rest
                  /\ UNCHANGED <<cols, byte_groups, reverse>>
    /\ UNCHANGED <<input, wbuf, output, offset, flaky, broken, chunks, wfailed,
                   source, decoded>>

\* The contents the input file (or stdin) may have.
ByteFiles == SeqsUpTo({65, 66}, MaxFile)

TextFiles ==
    { << >>,
      << "0", ":", " ", "4", "1", " ", " ", "A", "\n" >>,
      << "0", ":", " ", "4", " ", " ", "\n" >>,
      << "x", "\n" >>,
      << "0", ":" >> }

\* The end of the flag loop: the streams are opened (lines 99-128) and main
\* calls hex_dump or reverse_hex_dump (src/src/main.rs:20-33).  The arguments
\* left over name the files; the files open and `file` is what the input holds.
BuildDone ==
    /\ pc = "build"
    /\ IF args = << >> THEN TRUE ELSE ~StartsWithDash(Head(args))
    /\ \E file \in (IF reverse THEN TextFiles ELSE ByteFiles) :
         /\ input' = file
         /\ source' = file
    /\ pc' = IF reverse THEN "reverse" ELSE "dump"
    /\ UNCHANGED <<args, cols, byte_groups, reverse, wbuf, output, offset, result,
                   flaky, broken, chunks, wfailed, decoded>>

Tokens == {"-c", "-g", "-r", "-h", "-z", "0", "2", "300", "x"}

InitMain ==
    /\ args \in SeqsUpTo(Tokens, MaxArgs)
    /\ cols = DefaultCols
    /\ byte_groups = DefaultGroups
    /\ reverse = FALSE
    /\ input = << >>
    /\ source = << >>
    /\ wbuf = << >>
    /\ output = << >>
    /\ offset = 0
    /\ pc = "build"
    /\ result = "running"
    /\ flaky = FALSE
    /\ broken = FALSE
    /\ chunks = << >>
    /\ wfailed = FALSE
    /\ decoded = << >>

NextMain == BuildFlag \/ BuildDone \/ DumpLine \/ DumpEof \/ ReverseLine \/ ReverseEof

SpecMain == InitMain /\ [][NextMain]_vars

----------------------------------------------------------------------------
(* SpecLine: format_hex_dump_line on one chunk.                              *)

EdgeBytes == {10, 31, 32, 126, 127, 255}

Offsets == {0, 16, 43981}

FormatLine ==
    /\ pc = "line"
    /\ LET f == format_hex_dump_line(input, offset, cols, byte_groups)
       IN  /\ output' = f.line
           /\ result' = f.res
    /\ pc' = "done"
    /\ UNCHANGED <<args, cols, byte_groups, reverse, input, wbuf, offset, flaky,
                   broken, chunks, wfailed, source, decoded>>

InitLine ==
    /\ args = << >>
    /\ input \in SeqsUpTo(EdgeBytes, MaxChunk) \ {<< >>}
    /\ cols \in Len(input)..MaxCols
    /\ byte_groups \in 1..MaxGroups
    /\ offset \in Offsets
    /\ reverse = FALSE
    /\ source = input
    /\ wbuf = << >>
    /\ output = << >>
    /\ pc = "line"
    /\ result = "running"
    /\ flaky = FALSE
    /\ broken = FALSE
    /\ chunks = << >>
    /\ wfailed = FALSE
    /\ decoded = << >>

SpecLine == InitLine /\ [][FormatLine]_vars

----------------------------------------------------------------------------
(* SpecRev: format_reverse_hex_dump_line on one line.                        *)

LineChars == {":", " ", "0", "\n"}

HexChars == {"0", "a", "F", "g", " ", "\t"}

\* Short lines of any shape, and lines with the offset and both separators
\* around a hex section of any shape.
LineInputs ==
    SeqsUpTo(LineChars, MaxLine)
    \cup { << "0", ":", " " >> \o hex \o << " ", " ", "g", "\n" >> :
             hex \in SeqsUpTo(HexChars, MaxHex) }

ParseLine ==
    /\ pc = "revline"
    /\ LET f == format_reverse_hex_dump_line(input)
       IN  /\ output' = f.bytes
           /\ result' = f.res
    /\ pc' = "done"
    /\ UNCHANGED <<args, cols, byte_groups, reverse, input, wbuf, offset, flaky,
                   broken, chunks, wfailed, source, decoded>>

InitRev ==
    /\ args = << >>
    /\ input \in LineInputs
    /\ cols = DefaultCols
    /\ byte_groups = DefaultGroups
    /\ offset = 0
    /\ reverse = TRUE
    /\ source = << >>
    /\ wbuf = << >>
    /\ output = << >>
    /\ pc = "revline"
    /\ result = "running"
    /\ flaky = FALSE
    /\ broken = FALSE
    /\ chunks = << >>
    /\ wfailed = FALSE
    /\ decoded = << >>

SpecRev == InitRev /\ [][ParseLine]_vars

----------------------------------------------------------------------------
(* Notions the properties are stated with *)

RECURSIVE SplitLines(_)
\* The newline-terminated lines of a text, without their newlines; text after
\* the last newline is a last line.
SplitLines(text) ==
    IF text = << >> THEN << >>
    ELSE LET nl == FindFrom(text, "\n", 0)
         IN  IF nl = None THEN << text >>
             ELSE << SubSeq(text, 1, nl) >>
                  \o SplitLines(SubSeq(text, nl + 2, Len(text)))

RECURSIVE HexValue(_)
\* The number a sequence of hexadecimal digits denotes.
HexValue(digits) ==
    IF digits = << >> THEN 0
    ELSE 16 * HexValue(SubSeq(digits, 1, Len(digits) - 1))
         + ToDigit16(digits[Len(digits)])

IsLowerHex(c) == \E k \in 1..16 : LowerHex[k] = c

RECURSIVE BytesBefore(_)
\* The number of bytes rendered by the first k iterations of hex_dump.
BytesBefore(k) == IF k = 0 THEN 0 ELSE BytesBefore(k - 1) + Len(chunks[k].buf)

CeilDiv(n, d) == (n + d - 1) \div d

DumpDone == pc = "done" /\ ~reverse
RoundTripDone == pc = "done" /\ reverse

----------------------------------------------------------------------------
(* Properties of hex_dump followed by reverse_hex_dump (Spec) *)

\* C1: for every byte sequence, every cols in [0,256] and every byte_groups in
\* [1,256], reverse_hex_dump of the complete output of hex_dump succeeds and
\* writes exactly the byte sequence.
C1_RoundTrip == RoundTripDone => (result = "ok" /\ output = source)

\* The round trip for cols >= 1 (hex_dump reads nothing when cols = 0).
RoundTripPositiveCols == (RoundTripDone /\ cols >= 1) => (result = "ok" /\ output = source)

\* C5: for cols >= 1 and an input of n bytes, with reads that may return fewer
\* than cols bytes before the end of the stream, hex_dump emits exactly
\* ceil(n / cols) lines in stream order and every line except the last renders
\* exactly cols bytes; an empty input yields no line.
C5_Chunking ==
    (DumpDone /\ cols >= 1) =>
        /\ result = "ok"
        /\ Len(SplitLines(output)) = CeilDiv(Len(source), cols)
        /\ Len(chunks) = CeilDiv(Len(source), cols)
        /\ \A k \in 1..(Len(chunks) - 1) : Len(chunks[k].buf) = cols

\* C7: in the output of hex_dump the offset printed on line k is the number of
\* input bytes rendered on the lines before it (0 on the first line), as 8
\* zero-padded lowercase hexadecimal digits, whatever the lengths of the chunks.
C7_Offset ==
    DumpDone =>
        LET lines == SplitLines(output)
        IN  /\ Len(lines) = Len(chunks)
            /\ \A k \in 1..Len(lines) :
                 /\ Len(lines[k]) >= 9
                 /\ \A i \in 1..8 : IsLowerHex(lines[k][i])
                 /\ lines[k][9] = ":"
                 /\ HexValue(SubSeq(lines[k], 1, 8)) = BytesBefore(k - 1)

\* A run with a short chunk before the last line, so that the second offset differs
\* from cols.
C7_Witness ==
    /\ DumpDone
    /\ Len(chunks) >= 2
    /\ Len(chunks[1].buf) < cols
    /\ Len(SplitLines(output)) = Len(chunks)

AB == << 65, 66 >>

SixSpaces ==
    << "0", "0", "0", "0", "0", "0", "0", "0", ":", " ", "4", "1", "4", "2",
       " ", " ", " ", " ", " ", " ", "A", "B", "\n" >>

SevenSpaces ==
    << "0", "0", "0", "0", "0", "0", "0", "0", ":", " ", "4", "1", "4", "2",
       " ", " ", " ", " ", " ", " ", " ", "A", "B", "\n" >>

\* C8 as stated: hex_dump of the two bytes "AB" with cols = 4 and byte_groups = 2
\* writes "00000000: 4142      AB\n", six spaces between "4142" and "AB".
C8_SixSpaces ==
    (DumpDone /\ source = AB /\ cols = 4 /\ byte_groups = 2) => output = SixSpaces

\* C8 as amended: hex_dump of "AB", read as one chunk, with cols = 4 and
\* byte_groups = 2 writes "00000000: 4142       AB\n", seven spaces (five of
\* padding and the two of the separator) between "4142" and "AB".
C8_SevenSpaces ==
    (DumpDone /\ source = AB /\ cols = 4 /\ byte_groups = 2 /\ Len(chunks) = 1)
        => output = SevenSpaces

C8_Witness ==
    /\ DumpDone
    /\ source = AB /\ cols = 4 /\ byte_groups = 2 /\ Len(chunks) = 1
    /\ result = "ok"

----------------------------------------------------------------------------
(* Properties of format_hex_dump_line (SpecLine) *)

\* The number of characters between the ": " after the offset and the panel of
\* a line that renders r bytes.
HexWidth(line, r) == Len(line) - r - (FindFrom(line, ":", 0) + 2)

ZeroChunk(r) == [i \in 1..r |-> 0]

\* The width of the hex section is the same for every chunk length.
Aligned ==
    \A r \in 1..cols :
        HexWidth(format_hex_dump_line(ZeroChunk(r), offset, cols, byte_groups).line, r)
            = HexWidth(output, Len(input))

Hex2(b) == << LowerHex[(b \div 16) + 1], LowerHex[(b % 16) + 1] >>

RECURSIVE GroupedHex(_, _, _)
\* The first n bytes, two digits each, a space before byte i iff i > 0 and
\* i mod g = 0.
GroupedHex(buffer, n, g) ==
    IF n = 0 THEN << >>
    ELSE GroupedHex(buffer, n - 1, g)
         \o (IF n - 1 > 0 /\ (n - 1) % g = 0 THEN << " " >> ELSE << >>)
         \o Hex2(buffer[n])

\* The characters after the offset.
LineBody(buffer, c, g) ==
    LET r == Len(buffer)
    IN  << ":", " " >>
        \o GroupedHex(buffer, r, g)
        \o Spaces(IF r < c THEN (c - r) * 2 + ((c - r) \div g) ELSE 0)
        \o << " ", " " >>
        \o [i \in 1..r |->
              IF 32 <= buffer[i] /\ buffer[i] <= 126 THEN Printable[buffer[i] - 31]
              ELSE "."]

\* C9: the line of a chunk of r bytes (1 <= r <= cols, byte_groups >= 1) is the
\* offset and ": ", the two lowercase digits of each byte with one space before
\* byte i iff i > 0 and i mod byte_groups = 0, then iff r < cols
\* (cols - r) * 2 + (cols - r) div byte_groups spaces, then two spaces, then the
\* r panel characters (the byte itself from 0x20 to 0x7e, else "."), unpadded.
C9_LineLayout ==
    pc = "done" =>
        LET k == FindFrom(output, ":", 0)
        IN  /\ result = "ok"
            /\ k >= 8
            /\ \A i \in 1..k : IsLowerHex(output[i])
            /\ k > 8 => output[1] # "0"
            /\ HexValue(SubSeq(output, 1, k)) = offset
            /\ SubSeq(output, k + 1, Len(output)) = LineBody(input, cols, byte_groups)

C9_Witness ==
    /\ pc = "done"
    /\ Len(input) = 3
    /\ cols = 4
    /\ byte_groups = 2
    /\ input[1] = 127
    /\ input[3] = 126
    /\ offset > 0
    /\ Len(output) = 10 + 7 + 2 + 2 + 3

----------------------------------------------------------------------------
(* Properties of format_reverse_hex_dump_line (SpecRev) *)

HasColon(line) == \E i \in 1..Len(line) : line[i] = ":"

\* 1-based position of the first ':' of a line that has one.
FirstColon(line) == CHOOSE i \in 1..Len(line) : line[i] = ":" /\ \A j \in 1..(i - 1) : line[j] # ":"

\* Two consecutive spaces at or after the position two characters past the
\* first ':' (1-based positions p, p + 1 with p >= FirstColon + 2).
HasSeparator(line) ==
    \E p \in (FirstColon(line) + 2)..(Len(line) - 1) : line[p] = " " /\ line[p + 1] = " "

\* The hex section of a line with ':' and separator, its whitespace removed.
DenseHex(line) ==
    LET first == FirstColon(line) + 2
        sep   == CHOOSE p \in first..(Len(line) - 1) :
                     /\ line[p] = " " /\ line[p + 1] = " "
                     /\ \A q \in first..(p - 1) : ~(line[q] = " " /\ line[q + 1] = " ")
    IN  SelectSeq(SubSeq(line, first, sep - 1), LAMBDA c : ~IsWhitespace(c))

IsHexDigit(c) ==
    c \in {"0", "1", "2", "3", "4", "5", "6", "7", "8", "9",
           "a", "b", "c", "d", "e", "f", "A", "B", "C", "D", "E", "F"}

\* C6: a line without ':' gives the missing-':' error; a line with ':' but
\* without two consecutive spaces at or after the position two characters past
\* the first ':' gives the missing-double-space-separator error, also when
\* fewer than two characters follow the ':': an error value, never a crash.
C6_StructuralErrors ==
    pc = "done" =>
        /\ ~HasColon(input) => result = "malformed line: missing ':'"
        /\ (HasColon(input) /\ ~HasSeparator(input))
               => result = "malformed line: missing double space separator"

\* C6 where at least one character follows the first ':'.
StructuralErrorsNoCrash ==
    (pc = "done" /\ (HasColon(input) => FirstColon(input) < Len(input))) =>
        /\ ~HasColon(input) => result = "malformed line: missing ':'"
        /\ (HasColon(input) /\ ~HasSeparator(input))
               => result = "malformed line: missing double space separator"

\* C10 as stated: if any character of the hex section, whitespace removed, is
\* not a hexadecimal digit the result is the invalid-hex-char error, whatever
\* its position and the parity of the count; the odd-number error is returned
\* only when every character is a hexadecimal digit and their count is odd.
C10_InvalidBeforeOdd ==
    (pc = "done" /\ HasColon(input) /\ HasSeparator(input)) =>
        LET d == DenseHex(input)
        IN  /\ (\E i \in 1..Len(d) : ~IsHexDigit(d[i]))
                  => result = "malformed line: invalid hex char"
            /\ result = "malformed hex: odd number of hex digits"
                  => (Len(d) % 2 = 1 /\ \A i \in 1..Len(d) : IsHexDigit(d[i]))

\* C10 as amended: the characters are taken two at a time; if a character of a
\* complete pair is not a hexadecimal digit the result is the invalid-hex-char
\* error; otherwise, if the count is odd, it is the odd-number error, also when
\* the unpaired last character is not a hexadecimal digit; otherwise the line
\* is decoded.
C10_PairwiseErrors ==
    (pc = "done" /\ HasColon(input) /\ HasSeparator(input)) =>
        LET d      == DenseHex(input)
            paired == 2 * (Len(d) \div 2)
        IN  IF \E i \in 1..paired : ~IsHexDigit(d[i])
            THEN result = "malformed line: invalid hex char"
            ELSE IF Len(d) % 2 = 1
            THEN result = "malformed hex: odd number of hex digits"
            ELSE result = "ok" /\ Len(output) = Len(d) \div 2

\* A line whose only invalid character is the unpaired last one, after a valid pair.
C10_Witness ==
    /\ pc = "done" /\ HasColon(input) /\ HasSeparator(input)
    /\ LET d == DenseHex(input)
       IN  /\ Len(d) = 3
           /\ IsHexDigit(d[1]) /\ IsHexDigit(d[2]) /\ ~IsHexDigit(d[3])
    /\ result = "malformed hex: odd number of hex digits"

----------------------------------------------------------------------------
(* Properties of main (SpecMain) and of failing output (SpecIO) *)

\* C3: Config::build rejects "-g 0", so hex_dump never runs with
\* byte_groups = 0 and i % byte_groups and (cols - read) / byte_groups never
\* divide by zero.
C3_NeverDividesByZero == result # "panic: division by zero"

\* C4: whenever a write to the underlying output stream fails during hex_dump
\* or reverse_hex_dump, also one issued only when the BufWriter is flushed at
\* the end, the operation returns the error of the write direction, never Ok(()).
C4_WriteErrorReported ==
    (pc = "done" /\ wfailed) => result = "failed to write to output"

----------------------------------------------------------------------------
(* SpecAbort: reverse_hex_dump of a text of several lines, some malformed.   *)

\* Newline-terminated lines: two that decode, and one for each parse error,
\* the hex errors after a valid pair.
DumpLines ==
    { << "0", ":", " ", "4", "1", " ", " ", "A", "\n" >>,
      << "0", ":", " ", "4", "2", "4", "3", " ", " ", "\n" >>,
      << "0", ":", " ", "4", "1", "g", "0", " ", " ", "\n" >>,
      << "0", ":", " ", "4", "1", "4", " ", " ", "\n" >>,
      << "0", ":", " ", "4", "1", "\n" >>,
      << "x", "\n" >> }

\* What may follow the last newline.
LastLines ==
    { << >>,
      << "0", ":", " ", "4", "4", " ", " " >>,
      << "0", ":", " ", "4" >>,
      << "0", ":" >> }

RECURSIVE Concat(_)
\* The concatenation of a sequence of sequences.
Concat(seqs) == IF seqs = << >> THEN << >> ELSE Head(seqs) \o Concat(Tail(seqs))

InitAbort ==
    /\ args = << >>
    /\ \E ls \in SeqsUpTo(DumpLines, MaxRevLines), last \in LastLines :
         input = Concat(ls) \o last
    /\ source = input
    /\ cols = DefaultCols
    /\ byte_groups = DefaultGroups
    /\ offset = 0
    /\ reverse = TRUE
    /\ wbuf = << >>
    /\ output = << >>
    /\ pc = "reverse"
    /\ result = "running"
    /\ flaky = FALSE
    /\ broken = FALSE
    /\ chunks = << >>
    /\ wfailed = FALSE
    /\ decoded = << >>

NextAbort == ReverseLine \/ ReverseEof

SpecAbort == InitAbort /\ [][NextAbort]_vars

----------------------------------------------------------------------------
(* Properties of reverse_hex_dump on malformed input (SpecAbort) *)

RECURSIVE TextLines(_)
\* The lines of a text, each with its newline; text after the last newline is
\* a last line.
TextLines(text) ==
    IF text = << >> THEN << >>
    ELSE LET nl == FindFrom(text, "\n", 0)
         IN  IF nl = None THEN << text >>
             ELSE << SubSeq(text, 1, nl + 1) >>
                  \o TextLines(SubSeq(text, nl + 2, Len(text)))

\* The errors a line can fail to parse with.
ParseErrors ==
    { "malformed line: missing ':'",
      "malformed line: missing double space separator",
      "malformed line: line too short",
      "malformed hex: odd number of hex digits",
      "malformed line: invalid hex char" }

Parses(l) == format_reverse_hex_dump_line(l).res = "ok"

\* 1-based position of the first line of ls that does not parse.
FirstFailing(ls) == CHOOSE k \in 1..Len(ls) : ~Parses(ls[k]) /\ \A j \in 1..(k - 1) : Parses(ls[j])

\* The run stopped at the first failing line, position k of ls: nothing after
\* it was read or decoded, and the output is what the lines before it decode to.
AbortedAt(ls, k) ==
    /\ Len(decoded) = k
    /\ \A j \in 1..k : decoded[j].buf = ls[j]
    /\ input = Concat(SubSeq(ls, k + 1, Len(ls)))
    /\ wbuf = << >>
    /\ output = Concat([j \in 1..(k - 1) |-> format_reverse_hex_dump_line(ls[j]).bytes])

\* C11: when Lk is the first line that fails to parse, reverse_hex_dump returns
\* that error without reading or decoding any later line, and the bytes that
\* reach the output are exactly those decoded from the lines before Lk, in
\* order; no byte decoded from the valid pairs at the start of Lk is written.
C11_AbortOnParseFailure ==
    LET ls == TextLines(source)
    IN  (pc = "done" /\ \E k \in 1..Len(ls) : ~Parses(ls[k])) =>
            LET k == FirstFailing(ls)
            IN  /\ result \in ParseErrors
                /\ result = format_reverse_hex_dump_line(ls[k]).res
                /\ AbortedAt(ls, k)

\* C11 for a first failing line that fails with an error value.
AbortOnParseError ==
    LET ls == TextLines(source)
    IN  (pc = "done" /\ \E k \in 1..Len(ls) : ~Parses(ls[k])) =>
            LET k == FirstFailing(ls)
            IN  /\ result = format_reverse_hex_dump_line(ls[k]).res
                /\ result \in ParseErrors \cup {"panic: slice out of bounds"}
                /\ AbortedAt(ls, k)

\* A run that stopped at a line with a valid pair before its error, after a
\* line that decoded and before a line left unread.
AbortWitness ==
    /\ pc = "done"
    /\ Len(decoded) = 2
    /\ decoded[2].res = "malformed line: invalid hex char"
    /\ decoded[2].bytes # << >>
    /\ output = << 65 >>
    /\ input # << >>

====
